---- MODULE Spec2Model ----
(***************************************************************************)
(* The game state machine of the text adventure: the game_state dict of    *)
(* game_data.py, the clock and the action handlers of game_actions.py and  *)
(* the menu handlers and the main loop of menus.py.                        *)
(*                                                                         *)
(* Units.  time_remaining is counted in tenths of an hour (16h = 160; the  *)
(* smallest cost in the code is 0.1h).  The trust_* values and             *)
(* authority_of_town are counted in half points (the smallest delta in the *)
(* code is 0.5): P(n) is n points.  Arithmetic is exact: the rounding of   *)
(* Python's binary floats on repeated 0.1 steps is not modelled.           *)
(*                                                                         *)
(* One step of the model is one answer of the player at a blocking menu    *)
(* prompt together with everything the code runs until the next menu       *)
(* prompt.  pc is the menu loop that prompts next.  Random rolls and the   *)
(* answers to prompts inside a handler are inputs drawn with \E.           *)
(* "Show status", "Quit" answered with no, and invalid input change        *)
(* nothing: they are stuttering steps.                                     *)
(***************************************************************************)
EXTENDS Integers, FiniteSets, TLC

VARIABLES
    game_state,   \* the dict game_data.game_state
    pc,           \* the loop that prompts next: main, computer, friends,
                  \* steal, after_class; over once the loop saw the ending;
                  \* closed: main with the standard input at its end;
                  \* exit after sys.exit(0); crash after an exception that
                  \* nothing caught
    player,       \* the menu choices the player of this run ever makes
    overtime,     \* handler calls made from a nested menu loop after an
                  \* ending was recorded
    seen          \* the endings main_menu_loop has shown since the program
                  \* started

vars == <<game_state, pc, player, overtime, seen>>

\* A nested menu loop never looks at ending_achieved, so it lets the player go
\* on without end: the model follows the player for MaxOvertime more calls.
MaxOvertime == 2

\* n points / n hours in the units of the model.
P(n) == 2 * n
Hr(n) == 10 * n

None == "None"

Items ==
    { "backpack", "radio_warning", "survival_notes_alex", "survival_checklist",
      "gas_can", "bunker_rumor", "tip_henderson_truck", "supplies",
      "canned_food", "scavenged_tech_part", "school_supplies_taken",
      "bunker_supplies_taken", "tech_parts", "circuit board",
      "stolen_calculator", "truck_keys", "notebook" }

\* Keys that are not in the initial dict and are added during play.
ExtraKeys ==
    { "talked_to_alex_about_vision", "talked_to_maya_about_vision",
      "talked_to_ben_about_vision", "talked_to_jake_about_vision",
      "jake_owed_favor", "jenkins_banned", "jenkins_helped",
      "failed_public_warning", "jake_trust_opportunity_given" }

\* The initial dict.  A key of ExtraKeys has a value field here as well; it is
\* in the dict only while its name is in extra_keys, and reads as False (the
\* default of game_state.get) until then.
InitialState ==
    [ current_location |-> "home",
      inventory |-> [i \in Items |-> 0],
      knowledge |-> 0,
      tech_parts |-> 0,
      mob_of_civilians |-> FALSE,
      cash |-> 0,
      authority_of_town |-> 0,
      parents_warned |-> FALSE,
      has_car_keys |-> FALSE,
      car_gas |-> 0,
      bunker_unlocked |-> FALSE,
      military_base_accessed |-> FALSE,
      trust_alex |-> P(2),
      trust_maya |-> P(4),
      trust_ben |-> P(3),
      trust_jake |-> P(1),
      has_shared_vision_with_friends |-> FALSE,
      time_remaining |-> Hr(16),
      current_day_phase |-> "morning",
      ending_achieved |-> None,
      news_warning_issued |-> FALSE,
      military_activity_noticed |-> FALSE,
      mayor_warned |-> FALSE,
      has_attended_class |-> FALSE,
      extra_keys |-> {},
      talked_to_alex_about_vision |-> FALSE,
      talked_to_maya_about_vision |-> FALSE,
      talked_to_ben_about_vision |-> FALSE,
      talked_to_jake_about_vision |-> FALSE,
      jake_owed_favor |-> FALSE,
      jenkins_banned |-> FALSE,
      jenkins_helped |-> FALSE,
      failed_public_warning |-> FALSE,
      jake_trust_opportunity_given |-> FALSE ]

\* ---------------------------------------------------------------- inventory

\* item in game_state["inventory"]
Has(gs, item) == gs.inventory[item] > 0

\* game_state["inventory"].count(item)
Count(gs, item) == gs.inventory[item]

\* game_state["inventory"].append(item)
Put(gs, item) == [gs EXCEPT !.inventory[item] = @ + 1]

\* game_state["inventory"].remove(item)
Take(gs, item) == [gs EXCEPT !.inventory[item] = @ - 1]

\* The append without the test "if item not in inventory".
PutAgain(gs, item) == Put(gs, item)

\* "if item not in inventory: inventory.append(item)"
PutOnce(gs, item) == IF Has(gs, item) THEN gs ELSE Put(gs, item)

\* game_state[key] = value for a key of ExtraKeys
SetKey(gs, key, value) ==
    [gs EXCEPT ![key] = value, !.extra_keys = @ \cup {key}]

\* -------------------------------------------------------------------- clock

\* The subtraction without the floor at zero.
clamp_time_unfloored(t) == t

\* "Ensure time doesn't go below zero"
clamp_time(t) == IF t < 0 THEN 0 ELSE t

\* The clock at 0 with the assignment of the ending left out.
times_up_unrecorded(gs) == gs

\* The clock at 0 leaving an ending that is already recorded in place.
times_up_if_open(gs) ==
    IF gs.ending_achieved = None
    THEN [gs EXCEPT !.ending_achieved = "Time's Up"]
    ELSE gs

\* The clock at 0 leaving a destroyed missile on record.
times_up_unless_saved(gs) ==
    IF gs.ending_achieved = "Missile Destroyed"
    THEN gs
    ELSE [gs EXCEPT !.ending_achieved = "Time's Up"]

\* The ending advance_time records when the clock is at 0.
times_up(gs) == [gs EXCEPT !.ending_achieved = "Time's Up"]

\* The chain with the first test written as "not afternoon yet".
next_day_phase_not_yet(t, old) ==
    IF t <= Hr(12) /\ old # "afternoon" THEN "afternoon"
    ELSE IF t <= Hr(6) /\ old = "afternoon" THEN "evening"
    ELSE IF t <= Hr(1) /\ old = "evening" THEN "night"
    ELSE old

\* The chain with its breakpoints tested by "<".
next_day_phase_below(t, old) ==
    IF t < Hr(12) /\ old = "morning" THEN "afternoon"
    ELSE IF t < Hr(6) /\ old = "afternoon" THEN "evening"
    ELSE IF t < Hr(1) /\ old = "evening" THEN "night"
    ELSE old

\* The if/elif chain that moves the phase forward.
next_day_phase(t, old) ==
    IF t <= Hr(12) /\ old = "morning" THEN "afternoon"
    ELSE IF t <= Hr(6) /\ old = "afternoon" THEN "evening"
    ELSE IF t <= Hr(1) /\ old = "evening" THEN "night"
    ELSE old

\* time_events with the two thresholds tested by "<".
time_events_below(gs, silent) ==
    LET g1 == IF gs.time_remaining < Hr(10) /\ ~gs.news_warning_issued
              THEN PutOnce([gs EXCEPT !.news_warning_issued = TRUE],
                              "radio_warning")
              ELSE gs
    IN IF g1.time_remaining < Hr(5) /\ ~g1.military_activity_noticed
       THEN [g1 EXCEPT !.military_activity_noticed = TRUE]
       ELSE g1

\* time_events with the two events inside the "if not silent" narration.
time_events_when_not_silent(gs, silent) ==
    IF silent THEN gs
    ELSE LET g1 == IF gs.time_remaining <= Hr(10) /\ ~gs.news_warning_issued
                   THEN PutOnce([gs EXCEPT !.news_warning_issued = TRUE],
                                   "radio_warning")
                   ELSE gs
         IN IF g1.time_remaining <= Hr(5) /\ ~g1.military_activity_noticed
            THEN [g1 EXCEPT !.military_activity_noticed = TRUE]
            ELSE g1

\* The radio warning at 10h and the military traffic at 5h.  silent only
\* gates the narration above them.
time_events(gs, silent) ==
    LET g1 == IF gs.time_remaining <= Hr(10) /\ ~gs.news_warning_issued
              THEN PutOnce([gs EXCEPT !.news_warning_issued = TRUE],
                              "radio_warning")
              ELSE gs
    IN IF g1.time_remaining <= Hr(5) /\ ~g1.military_activity_noticed
       THEN [g1 EXCEPT !.military_activity_noticed = TRUE]
       ELSE g1

\* advance_time with the test for the end of the clock written "<= 1".
advance_time_last_hour(gs, hours, silent) ==
    LET g1 == [gs EXCEPT !.time_remaining = clamp_time(@ - hours)]
    IN IF g1.time_remaining <= Hr(1)
       THEN times_up(g1)
       ELSE time_events(
                [g1 EXCEPT !.current_day_phase =
                               next_day_phase(g1.time_remaining, @)],
                silent)

advance_time(gs, hours, silent) ==
    LET g1 == [gs EXCEPT !.time_remaining = clamp_time(@ - hours)]
    IN IF g1.time_remaining = 0
       THEN times_up(g1)
       ELSE time_events(
                [g1 EXCEPT !.current_day_phase =
                               next_day_phase(g1.time_remaining, @)],
                silent)

\* ---------------------------------------------------------------- dialogue

\* game_state.get(key, False)
Get(gs, key) == gs[key]

\* handle_talk_parents_action up to its "Press Enter to continue..." prompt.
handle_talk_parents_action_until_prompt(gs, choice_num) ==
    IF ~gs.parents_warned /\ choice_num = 1
    THEN [gs EXCEPT !.parents_warned = TRUE]
    ELSE gs

handle_talk_parents_action(gs, choice_num) ==
    LET g1 == IF ~gs.parents_warned /\ choice_num = 1
              THEN [gs EXCEPT !.parents_warned = TRUE]
              ELSE gs
    IN advance_time(g1, 5, TRUE)

\* The three reaction tiers of Alex to the vision.
alex_vision_reaction(gs) ==
    IF gs.trust_alex >= P(4) THEN [gs EXCEPT !.knowledge = @ + 1]
    ELSE IF gs.trust_alex >= P(2) THEN [gs EXCEPT !.trust_alex = @ - 1]
    ELSE [gs EXCEPT !.trust_alex = @ - P(1)]

handle_talk_alex_action(gs, choice_num) ==
    LET g1 ==
          IF ~Get(gs, "talked_to_alex_about_vision")
          THEN IF choice_num = 1
               THEN alex_vision_reaction(
                        SetKey([gs EXCEPT !.has_shared_vision_with_friends = TRUE],
                               "talked_to_alex_about_vision", TRUE))
               ELSE IF choice_num = 2
               THEN Put([gs EXCEPT !.knowledge = @ + 2], "survival_notes_alex")
               ELSE IF choice_num = 3
               THEN [gs EXCEPT !.trust_alex = @ + 1]
               ELSE gs
          ELSE gs
    IN advance_time(g1, 5, TRUE)

\* The three reaction tiers of Maya to the vision.
maya_vision_reaction(gs) ==
    IF gs.trust_maya >= P(5) THEN [gs EXCEPT !.trust_maya = @ + P(5)]
    ELSE IF gs.trust_maya >= P(3) THEN [gs EXCEPT !.trust_maya = @ + P(1)]
    ELSE [gs EXCEPT !.trust_maya = @ - 1]

handle_talk_maya_action(gs, choice_num) ==
    LET g1 ==
          IF ~Get(gs, "talked_to_maya_about_vision")
          THEN IF choice_num = 1
               THEN maya_vision_reaction(
                        SetKey([gs EXCEPT !.has_shared_vision_with_friends = TRUE],
                               "talked_to_maya_about_vision", TRUE))
               ELSE IF choice_num = 2
               THEN [gs EXCEPT !.trust_maya = @ + 1]
               ELSE gs
          ELSE gs
    IN advance_time(g1, 5, TRUE)

\* The three reaction tiers of Ben to the vision.
ben_vision_reaction(gs) ==
    IF gs.trust_ben >= P(4)
    THEN Put([gs EXCEPT !.trust_ben = @ + P(10), !.knowledge = @ + 1],
             "survival_checklist")
    ELSE IF gs.trust_ben >= P(2) THEN [gs EXCEPT !.trust_ben = @ - 1]
    ELSE [gs EXCEPT !.trust_ben = @ - P(1)]

\* Choice 2 with Ben: the gas can, the bunker rumor at trust >= 6, +5 trust,
\* the truck tip.
ben_practical_help(gs) ==
    LET g1 == [PutOnce(gs, "gas_can") EXCEPT !.car_gas = @ + 30]
        g2 == IF g1.trust_ben >= P(6) /\ ~Has(g1, "bunker_rumor")
              THEN Put(g1, "bunker_rumor")
              ELSE g1
    IN Put([g2 EXCEPT !.trust_ben = @ + P(5)], "tip_henderson_truck")

handle_talk_ben_action(gs, choice_num) ==
    LET g1 ==
          IF ~Get(gs, "talked_to_ben_about_vision")
          THEN IF choice_num = 1
               THEN ben_vision_reaction(
                        SetKey([gs EXCEPT !.has_shared_vision_with_friends = TRUE],
                               "talked_to_ben_about_vision", TRUE))
               ELSE IF choice_num = 2 THEN ben_practical_help(gs)
               ELSE IF choice_num = 3 THEN [gs EXCEPT !.trust_ben = @ + P(1)]
               ELSE gs
          ELSE gs
    IN advance_time(g1, 5, TRUE)

\* The three reaction tiers of Jake to the vision.
jake_vision_reaction(gs) ==
    IF gs.trust_jake >= P(5)
    THEN [gs EXCEPT !.trust_jake = @ + P(10), !.mob_of_civilians = TRUE]
    ELSE IF gs.trust_jake >= P(3) THEN [gs EXCEPT !.trust_jake = @ - 1]
    ELSE [gs EXCEPT !.trust_jake = @ - P(1)]

\* handle_talk_jake_action without the test of talked_to_jake_about_vision:
\* the vision is told again at every talk.
handle_talk_jake_action_retold(gs, choice_num) ==
    LET g1 == IF gs.trust_jake < P(3) THEN gs
              ELSE IF choice_num = 1
              THEN jake_vision_reaction(
                       SetKey(gs, "talked_to_jake_about_vision", TRUE))
              ELSE gs
    IN advance_time(g1, 5, TRUE)

handle_talk_jake_action(gs, choice_num) ==
    LET told == Get(gs, "talked_to_jake_about_vision")
        g1 ==
          IF gs.trust_jake < P(3) /\ ~told THEN gs
          ELSE IF ~told
          THEN IF choice_num = 1
               THEN jake_vision_reaction(
                        SetKey(gs, "talked_to_jake_about_vision", TRUE))
               ELSE IF choice_num = 2
               THEN IF gs.trust_jake >= P(3)
                    THEN SetKey(gs, "jake_owed_favor", TRUE)
                    ELSE gs
               ELSE IF choice_num = 3
               THEN IF gs.trust_jake <= P(2)
                    THEN [gs EXCEPT !.ending_achieved = "Jailed"]
                    ELSE [gs EXCEPT !.trust_jake = @ + P(1)]
               ELSE IF choice_num = 4 THEN [gs EXCEPT !.trust_jake = @ + P(1)]
               ELSE IF choice_num = 5 THEN [gs EXCEPT !.trust_jake = @ + P(2)]
               ELSE IF choice_num = 6 THEN [gs EXCEPT !.trust_jake = @ + P(1)]
               ELSE gs
          ELSE gs
    IN advance_time(g1, 5, TRUE)

handle_jake_favor_action(gs) ==
    LET g1 ==
          IF Get(gs, "jake_owed_favor")
          THEN LET g2 == IF gs.cash < 1 THEN [gs EXCEPT !.cash = @ + 1]
                         ELSE IF Count(gs, "supplies") < 2
                         THEN Put(gs, "supplies")
                         ELSE Put([gs EXCEPT !.tech_parts = @ + 1],
                                  "scavenged_tech_part")
               IN [SetKey(g2, "jake_owed_favor", FALSE)
                      EXCEPT !.trust_jake = @ - P(1)]
          ELSE gs
    IN advance_time(g1, 5, FALSE)

\* roll: random.random() < 0.5; yes: the answer to "step in and help?"
build_jake_trust_opportunity(gs, roll, yes) ==
    IF gs.trust_jake <= P(3) /\ ~Get(gs, "jake_trust_opportunity_given") /\ roll
    THEN LET g1 == IF yes THEN [gs EXCEPT !.trust_jake = @ + P(3)]
                   ELSE [gs EXCEPT !.trust_jake = @ - P(1)]
         IN advance_time(SetKey(g1, "jake_trust_opportunity_given", TRUE),
                         5, TRUE)
    ELSE gs

\* ------------------------------------------------------- town and research

\* evidence_found that takes the backpack for proof.
evidence_found_or_backpack(gs) ==
    Has(gs, "survival_notes_alex") \/ Has(gs, "radio_warning")
        \/ Has(gs, "bunker_rumor") \/ Has(gs, "backpack")

evidence_found(gs) ==
    Has(gs, "survival_notes_alex") \/ Has(gs, "radio_warning")
        \/ Has(gs, "bunker_rumor")

handle_town_hall_interaction_action(gs, choice_num) ==
    LET g1 ==
          IF choice_num = 1
          THEN IF gs.knowledge >= 5 /\ evidence_found(gs)
               THEN [gs EXCEPT !.authority_of_town = @ + P(5),
                               !.mayor_warned = TRUE]
               ELSE [gs EXCEPT !.authority_of_town = @ - P(1),
                               !.current_location = "town_square"]
          ELSE IF choice_num = 2
          THEN [gs EXCEPT !.authority_of_town = @ - 1]
          ELSE IF choice_num = 3
          THEN [gs EXCEPT !.current_location = "town_square"]
          ELSE gs
    IN advance_time(g1, Hr(1), FALSE)

\* lucky: random.random() < 0.3, read only when knowledge < 2
handle_computer_use_action(gs, choice_num, lucky) ==
    LET g0 == PutOnce(gs, "backpack")
    IN IF choice_num = 1
       THEN advance_time([g0 EXCEPT !.knowledge = @ + 1], Hr(1), FALSE)
       ELSE IF choice_num = 2
       THEN advance_time([g0 EXCEPT !.knowledge = @ + 2], Hr(1), FALSE)
       ELSE IF choice_num = 3
       THEN advance_time(
                IF g0.knowledge >= 2 \/ lucky THEN PutOnce(g0, "bunker_rumor")
                ELSE g0,
                Hr(1), FALSE)
       ELSE IF choice_num = 4 THEN advance_time(g0, 5, TRUE)
       ELSE g0

maya_bonus(gs) ==
    IF gs.trust_maya >= P(5) /\ Get(gs, "talked_to_maya_about_vision")
    THEN P(2) ELSE 0

handle_shout_warning(gs) ==
    LET g1 ==
          IF gs.authority_of_town + maya_bonus(gs) >= P(3)
          THEN [gs EXCEPT !.mob_of_civilians = TRUE,
                          !.authority_of_town = @ + P(1)]
          ELSE SetKey(IF gs.trust_alex > 0
                      THEN [gs EXCEPT !.trust_alex = @ - P(1)]
                      ELSE gs,
                      "failed_public_warning", TRUE)
    IN advance_time(g1, 5, FALSE)

\* ---------------------------------------------------------- stores and work

\* Choice 4: helping with the boxes.  yes: the answer to "Help Mr. Jenkins?",
\* crash: random.random() < 0.15
jenkins_boxes(gs, yes, crash) ==
    IF ~Get(gs, "jenkins_helped")
    THEN IF yes
         THEN SetKey(
                  IF crash
                  THEN [SetKey(gs, "jenkins_banned", TRUE)
                           EXCEPT !.current_location = "town_square"]
                  ELSE [Put(gs, "supplies")
                           EXCEPT !.authority_of_town = @ + 1],
                  "jenkins_helped", TRUE)
         ELSE gs
    ELSE gs

handle_general_store_interaction_action(gs, choice_num, yes, crash) ==
    LET g1 ==
          IF choice_num = 1
          THEN IF gs.cash >= 1
               THEN LET g2 == Put([gs EXCEPT !.cash = @ - 1], "canned_food")
                    IN IF ~Has(g2, "gas_can")
                       THEN [Put(g2, "gas_can") EXCEPT !.car_gas = @ + 30]
                       ELSE g2
               ELSE gs
          ELSE IF choice_num = 3
          THEN [gs EXCEPT !.authority_of_town = @ - 1]
          ELSE IF choice_num = 4 THEN jenkins_boxes(gs, yes, crash)
          ELSE IF choice_num = 5
          THEN [gs EXCEPT !.current_location = "town_square"]
          ELSE gs
    IN advance_time(g1, 5, FALSE)

\* success: random.random() < success_chance (0.65 with the backpack, 0.35
\* without: either way both outcomes are possible)
handle_steal_general_store_action(gs, sub_choice_num, success) ==
    LET g1 ==
          IF sub_choice_num = 1
          THEN IF success
               THEN [PutOnce(gs, "gas_can") EXCEPT !.car_gas = @ + 50]
               ELSE [gs EXCEPT !.ending_achieved = "Jailed"]
          ELSE gs
    IN advance_time(g1, 5, FALSE)

\* handle_burger_hut_work_action with shifts that take no time.
handle_burger_hut_work_action_off_the_clock(gs, choice_str) ==
    IF choice_str = "yes" /\ gs.time_remaining >= Hr(4)
    THEN [gs EXCEPT !.cash = @ + 1, !.current_location = "town_square"]
    ELSE [gs EXCEPT !.current_location = "town_square"]

handle_burger_hut_work_action(gs, choice_str) ==
    LET g1 == IF choice_str = "yes" /\ gs.time_remaining >= Hr(4)
              THEN advance_time([gs EXCEPT !.cash = @ + 1], Hr(4), FALSE)
              ELSE gs
    IN advance_time([g1 EXCEPT !.current_location = "town_square"], 1, TRUE)

\* buy_tech_parts_action without the test of the cash.
buy_tech_parts_action_on_credit(gs) ==
    advance_time(
        Put([gs EXCEPT !.cash = @ - 1, !.tech_parts = @ + 1], "circuit board"),
        5, FALSE)

buy_tech_parts_action(gs) ==
    IF gs.cash >= 1
    THEN advance_time(
             Put([gs EXCEPT !.cash = @ - 1, !.tech_parts = @ + 1],
                 "circuit board"),
             5, FALSE)
    ELSE advance_time(gs, 1, TRUE)

\* yes: the answer to "Break down the calculator for tech parts?"
handle_steal_school_action(gs, success, yes) ==
    LET g1 ==
          IF success
          THEN LET g2 == Put(gs, "stolen_calculator")
               IN IF g2.knowledge >= 4 /\ yes
                  THEN [Take(g2, "stolen_calculator")
                           EXCEPT !.tech_parts = @ + 1]
                  ELSE g2
          ELSE [gs EXCEPT !.ending_achieved = "Jailed"]
    IN advance_time(g1, 5, FALSE)

\* The stolen_tech_part is appended and removed again in the same call.
handle_steal_tech_store_action(gs, success) ==
    LET g1 == IF success THEN [gs EXCEPT !.tech_parts = @ + 1]
              ELSE [gs EXCEPT !.ending_achieved = "Jailed"]
    IN advance_time(g1, 5, FALSE)

\* The items of the inventory the pawn shop buys.
sellable(gs) ==
    {i \in {"stolen_calculator", "gas_can"} : Has(gs, i)}

\* item: the item chosen, or "cancel"
handle_pawn_shop_sell_action(gs, item) ==
    IF sellable(gs) = {} THEN gs
    ELSE advance_time(
             IF item \in sellable(gs)
             THEN [Take(gs, item) EXCEPT !.cash = @ + 1]
             ELSE gs,
             1, TRUE)

\* yes: the answer to "Break down calculator for tech parts?"
display_inventory(gs, yes) ==
    IF Has(gs, "stolen_calculator") /\ gs.knowledge >= 4 /\ yes
    THEN advance_time(
             [Take(gs, "stolen_calculator") EXCEPT !.tech_parts = @ + 1],
             5, TRUE)
    ELSE gs

\* The first part of handle_go_to_class_action, up to the loop that offers
\* to talk to Jake after class.
attend_class(gs) ==
    LET gain == IF Has(gs, "notebook") THEN 2 ELSE 1
        g1 == advance_time([gs EXCEPT !.knowledge = @ + gain], Hr(2), FALSE)
        g2 == [g1 EXCEPT !.has_attended_class = TRUE]
        g3 == IF g2.trust_jake <= P(2)
              THEN [g2 EXCEPT !.trust_jake = @ + P(1)]
              ELSE g2
    IN IF ~Has(g3, "school_supplies_taken")
       THEN Put(Put(g3, "school_supplies_taken"), "supplies")
       ELSE g3

\* The else branch of handle_go_to_class_action.
class_already_attended(gs) == advance_time(gs, 1, TRUE)

\* ------------------------------------------------------ travel and escapes

set_location(gs, loc) == [gs EXCEPT !.current_location = loc]

handle_truck_travel_action(gs, destination) ==
    IF ~Has(gs, "truck_keys") THEN gs
    ELSE IF gs.car_gas < 10 THEN gs
    ELSE IF gs.car_gas < 5 THEN gs
    ELSE advance_time(
             [gs EXCEPT !.car_gas = @ - 5, !.current_location = destination],
             5, TRUE)

\* handle_local_bus_travel with a destination that is no location.
handle_local_bus_travel_off_the_map(gs) ==
    advance_time([gs EXCEPT !.current_location = "outskirts"], 5, FALSE)

handle_local_bus_travel(gs) ==
    advance_time([gs EXCEPT !.current_location = "outskirts_road"], 5, FALSE)

handle_search_for_car_action(gs) ==
    advance_time(
        IF ~gs.has_car_keys
        THEN Put([gs EXCEPT !.has_car_keys = TRUE], "truck_keys")
        ELSE gs,
        Hr(3), FALSE)

\* The ally conjunction as display_status reports it.
status_allies_ready(gs) ==
    /\ Get(gs, "has_shared_vision_with_friends")
    /\ gs.trust_alex >= P(4)
    /\ gs.trust_maya >= P(5)
    /\ gs.trust_ben >= P(4)

\* The ally conjunction of handle_truck_escape_ending.
truck_friends_come(gs) ==
    /\ Get(gs, "has_shared_vision_with_friends")
    /\ gs.trust_alex >= P(4)
    /\ gs.trust_maya >= P(4)
    /\ gs.trust_ben >= P(4)

\* The ally conjunction of buy_out_of_state_ticket.
bus_friends_come(gs) ==
    /\ Get(gs, "has_shared_vision_with_friends")
    /\ gs.trust_alex >= P(4)
    /\ gs.trust_maya >= P(4)
    /\ gs.trust_ben >= P(4)

\* The ally conjunction of handle_neighbors_bunker_menu: TRUST_THRESHOLDS["HIGH"].
bunker_friends_come(gs) ==
    /\ Get(gs, "has_shared_vision_with_friends")
    /\ gs.trust_alex >= P(4)
    /\ gs.trust_maya >= P(4)
    /\ gs.trust_ben >= P(4)

\* Whether handle_truck_escape_ending returns True.
truck_escape_starts(gs) ==
    gs.time_remaining > 0 /\ Has(gs, "truck_keys") /\ gs.car_gas >= 30

handle_truck_escape_ending(gs) ==
    IF ~truck_escape_starts(gs) THEN gs
    ELSE IF truck_friends_come(gs)
    THEN [gs EXCEPT !.ending_achieved = "Allies Escape"]
    ELSE [gs EXCEPT !.ending_achieved = "Solo Escape"]

buy_out_of_state_ticket(gs) ==
    IF gs.cash >= 1 /\ gs.time_remaining > 0
    THEN IF bus_friends_come(gs)
         THEN [gs EXCEPT !.cash = @ - 1, !.ending_achieved = "Allies Escape"]
         ELSE [gs EXCEPT !.cash = @ - 1, !.ending_achieved = "Solo Escape"]
    ELSE gs

\* The check at the top of handle_neighbors_bunker_menu.
bunker_escape_ready(gs) ==
    gs.bunker_unlocked /\ Count(gs, "supplies") >= 3 /\ gs.time_remaining > 0

bunker_escape(gs) ==
    IF bunker_friends_come(gs)
    THEN [gs EXCEPT !.ending_achieved = "Allies Escape"]
    ELSE [gs EXCEPT !.ending_achieved = "Solo Escape"]

handle_bunker_access_action(gs, action_type) ==
    IF action_type = "examine door" THEN advance_time(gs, 5, TRUE)
    ELSE IF action_type = "knock"
    THEN advance_time(
             IF ~gs.bunker_unlocked /\ Has(gs, "bunker_rumor")
                    /\ gs.trust_ben >= P(10)
             THEN [gs EXCEPT !.bunker_unlocked = TRUE]
             ELSE gs,
             5, FALSE)
    ELSE IF action_type = "enter"
    THEN advance_time(
             IF gs.bunker_unlocked
             THEN [(IF ~Has(gs, "bunker_supplies_taken")
                    THEN Put(Put(Put(Put(gs, "bunker_supplies_taken"),
                                     "supplies"), "tech_parts"), "tech_parts")
                    ELSE gs)
                      EXCEPT !.current_location = "neighbors_bunker"]
             ELSE gs,
             Hr(1), FALSE)
    ELSE gs

\* The check with the test of the mob left out.
town_evacuated_ready_without_mob(gs) ==
    gs.mayor_warned /\ gs.time_remaining > 0

\* The check at the top of handle_town_square_menu.
town_evacuated_ready(gs) ==
    gs.mayor_warned /\ gs.mob_of_civilians /\ gs.time_remaining > 0

\* ------------------------------------------------------------ military base

\* choice: the answer at the laser prompt, "1" or "2" (anything else prompts
\* again)
handle_laser_activation(gs, choice) ==
    IF choice = 1
    THEN IF gs.knowledge >= 7
         THEN [gs EXCEPT !.ending_achieved = "Missile Destroyed"]
         ELSE [gs EXCEPT !.ending_achieved = "Time's Up"]
    ELSE [gs EXCEPT !.ending_achieved = "Time's Up"]

\* handle_escape_base_attempt that lets anybody with a backpack out.
handle_escape_base_attempt_by_backpack(gs) ==
    advance_time(
        IF Has(gs, "backpack")
        THEN [gs EXCEPT !.current_location = "outskirts_road"]
        ELSE [gs EXCEPT !.ending_achieved = "Jailed"],
        5, FALSE)

handle_escape_base_attempt(gs) ==
    advance_time(
        IF gs.knowledge >= 4 /\ Has(gs, "backpack")
        THEN [gs EXCEPT !.current_location = "outskirts_road"]
        ELSE [gs EXCEPT !.ending_achieved = "Jailed"],
        5, FALSE)

\* Choice 1, the search for the laser control room.
search_laser_room(gs, laser) ==
    LET g1 == IF gs.knowledge >= 5 THEN handle_laser_activation(gs, laser)
              ELSE LET g2 == advance_time(gs, Hr(1), FALSE)
                   IN IF g2.time_remaining <= 0
                      THEN [g2 EXCEPT !.ending_achieved = "Time's Up"]
                      ELSE g2
    IN IF g1.time_remaining <= Hr(5) /\ g1.ending_achieved = None
       THEN [g1 EXCEPT !.ending_achieved = "Jailed"]
       ELSE g1

handle_military_base_action(gs, choice_num, laser) ==
    LET g1 ==
          IF choice_num = 1 THEN search_laser_room(gs, laser)
          ELSE IF choice_num = 2
          THEN IF gs.authority_of_town >= P(7) /\ gs.knowledge >= 4
               THEN handle_laser_activation(gs, laser)
               ELSE [gs EXCEPT !.ending_achieved = "Jailed"]
          ELSE IF choice_num = 3
          THEN IF gs.knowledge >= 6 /\ gs.tech_parts >= 2
               THEN handle_laser_activation(gs, laser)
               ELSE [gs EXCEPT !.ending_achieved = "Jailed"]
          ELSE IF choice_num = 4 THEN handle_escape_base_attempt(gs)
          ELSE gs
    IN advance_time(g1, 5, FALSE)

\* -------------------------------------------------------------------- menus

Locations ==
    { "home", "town_square", "school_entrance", "newspaper_club",
      "general_store", "town_hall", "bus_stop", "tech_store", "military_base",
      "outskirts_road", "neighbors_bunker", "burger_hut", "pawn_shop" }

\* The "exits" map of each entry of locations: the targets only.
exits ==
    [ loc \in Locations |->
        CASE loc = "home" -> {"town_square", "school_entrance"}
          [] loc = "town_square" ->
               {"bus_stop", "town_hall", "tech_store", "military_base",
                "general_store", "pawn_shop"}
          [] loc = "school_entrance" -> {"town_square", "newspaper_club"}
          [] loc = "newspaper_club" -> {"school_entrance"}
          [] loc = "outskirts_road" -> {"town_square", "neighbors_bunker"}
          [] loc = "neighbors_bunker" -> {"outskirts_road"}
          [] OTHER -> {"town_square"} ]

\* The locations reached from the set known by following exits.
RECURSIVE FollowExits(_)
FollowExits(known) ==
    LET more == known \cup UNION {exits[loc] : loc \in known}
    IN IF more = known THEN known ELSE FollowExits(more)

\* The player picks the option that walks to loc / that drives to loc / the
\* option kind with sub-choice n.
Goes(loc) == loc \in player.walk
Drives(loc) == loc \in player.drive
Does(kind, n) == <<kind, n>> \in player.act

\* The handler is done and the next prompt is the one of loop.
Prompt(loop, gs) ==
    game_state' = gs /\ pc' = loop /\ UNCHANGED <<player, overtime, seen>>

\* The same for a handler called from a nested menu loop, which stays in it.
Again(loop, gs) ==
    /\ game_state.ending_achieved # None => overtime < MaxOvertime
    /\ game_state' = gs
    /\ pc' = loop
    /\ overtime' = IF game_state.ending_achieved # None THEN overtime + 1
                   ELSE overtime
    /\ UNCHANGED <<player, seen>>

\* main_menu_loop dispatches the handler of loc: no ending is recorded.
AtMenu(loc) ==
    /\ pc = "main"
    /\ game_state.ending_achieved = None
    /\ game_state.current_location = loc

\* The "Show inventory" option of a menu, from state gs.
ShowInventory(gs) ==
    Does("inventory", 0) /\ \E yes \in BOOLEAN :
        Prompt("main", display_inventory(gs, yes))

\* The bunker option appended whatever the inventory holds.
bunker_option_always_shown(gs) == gs.current_location = "outskirts_road"

\* "Only show bunker option if player has discovered it"
bunker_option_shown(gs) == Has(gs, "bunker_rumor")

\* The destinations of the set_location options in the menu of loc.
walk_options(gs, loc) ==
    CASE loc = "home" -> {"town_square", "school_entrance"}
      [] loc = "town_square" ->
            {"burger_hut", "home", "school_entrance", "bus_stop", "town_hall",
             "tech_store", "military_base", "general_store", "pawn_shop"}
      [] loc = "school_entrance" -> {"newspaper_club", "home", "town_square"}
      [] loc = "newspaper_club" -> {"school_entrance"}
      [] loc = "outskirts_road" ->
            {"bus_stop"} \cup (IF bunker_option_shown(gs)
                               THEN {"neighbors_bunker"} ELSE {})
      [] loc = "neighbors_bunker" -> {"outskirts_road"}
      [] loc \in {"general_store", "town_hall", "bus_stop", "tech_store",
                  "burger_hut", "pawn_shop"} -> {"town_square"}
      [] OTHER -> {}

\* A set_location option of the menu of loc is picked in state gs.
Walk(gs, loc) ==
    \E d \in walk_options(gs, loc) :
        Goes(d) /\ Prompt("main", set_location(gs, d))

\* The destinations add_truck_travel_options offers at current_location to a
\* player with the keys and the gas.
add_truck_travel_options(gs, current_location) ==
    CASE current_location = "town_square" ->
            {"school_entrance", "general_store", "tech_store", "bus_stop",
             "outskirts_road"}
      [] current_location = "school_entrance" ->
            {"town_square", "general_store", "bus_stop", "outskirts_road"}
      [] current_location = "general_store" ->
            {"town_square", "school_entrance", "bus_stop", "outskirts_road"}
                \cup (IF gs.tech_parts < 2 THEN {"tech_store"} ELSE {})
      [] current_location = "tech_store" ->
            {"town_square", "general_store", "bus_stop", "outskirts_road"}
                \cup (IF gs.knowledge >= 5 /\ gs.tech_parts >= 2
                      THEN {"military_base"} ELSE {})
      [] current_location = "outskirts_road" ->
            {"town_square", "bus_stop", "general_store"}
      [] OTHER -> {"town_square"}

\* add_truck_travel_options, then the handler of the option picked.
TruckTravel(gs, destinations) ==
    /\ Has(gs, "truck_keys") /\ gs.car_gas >= 10
    /\ \E d \in destinations :
          Drives(d) /\ Prompt("main", handle_truck_travel_action(gs, d))

\* The six endings the game can record.
Endings ==
    {"Time's Up", "Jailed", "Allies Escape", "Solo Escape", "Town Evacuated",
     "Missile Destroyed"}

\* The if/elif chain of main_menu_loop with the branch of "Town Evacuated"
\* left out.
handle_ending_unless_evacuated(ending) ==
    IF ending \in Endings \ {"Town Evacuated"} THEN {ending} ELSE {}

\* The if/elif chain of main_menu_loop that picks the handler of the ending
\* recorded: the endings it shows.
handle_ending(ending) ==
    IF ending \in Endings THEN {ending} ELSE {}

\* The top of main_menu_loop with an ending recorded: the ending is shown and
\* the loop returns.
ending_observed ==
    /\ pc = "main"
    /\ game_state.ending_achieved # None
    /\ pc' = "over"
    /\ seen' = seen \cup handle_ending(game_state.ending_achieved)
    /\ UNCHANGED <<game_state, player, overtime>>

handle_home_menu ==
    /\ AtMenu("home")
    /\ \/ Walk(game_state, "home")
       \/ Does("computer", 0) /\ Prompt("computer", game_state)
       \/ \E c \in {1, 2} :
            /\ Does("parents", c)
            /\ ~game_state.parents_warned \/ c = 2
            /\ Prompt("main", handle_talk_parents_action(game_state, c))
       \/ ShowInventory(game_state)

\* The while loop of handle_computer_use_menu.
handle_computer_use_menu ==
    /\ pc = "computer"
    /\ \/ \E c \in {1, 2, 3} : \E lucky \in BOOLEAN :
            /\ Does("computer", c)
            /\ Again("computer",
                      handle_computer_use_action(game_state, c, lucky))
       \/ Prompt("main", game_state)

handle_town_square_menu ==
    /\ AtMenu("town_square")
    /\ IF town_evacuated_ready(game_state)
       THEN Prompt("main",
                   [game_state EXCEPT !.ending_achieved = "Town Evacuated"])
       ELSE \/ Does("shout", 0)
                 /\ Prompt("main", handle_shout_warning(game_state))
            \/ Walk(game_state, "town_square")
            \/ TruckTravel(game_state,
                           add_truck_travel_options(game_state,
                                                    "town_square"))
            \/ ShowInventory(game_state)

handle_school_entrance_menu ==
    /\ AtMenu("school_entrance")
    /\ \E roll \in BOOLEAN, help \in BOOLEAN :
         LET gs == build_jake_trust_opportunity(game_state, roll, help)
         IN \/ /\ Does("class", 0)
               /\ IF ~gs.has_attended_class
                  THEN Prompt("after_class", attend_class(gs))
                  ELSE Prompt("main", class_already_attended(gs))
            \/ /\ Does("steal_school", 0)
               /\ \E success \in BOOLEAN, yes \in BOOLEAN :
                     Prompt("main",
                            handle_steal_school_action(gs, success, yes))
            \/ Walk(gs, "school_entrance")
            \/ TruckTravel(gs, add_truck_travel_options(gs, "school_entrance"))
            \/ ShowInventory(gs)
            \/ Does("status", 0) /\ Prompt("main", gs)

\* The while loop at the end of handle_go_to_class_action.
after_class_loop ==
    /\ pc = "after_class"
    /\ \/ /\ Does("after_class", 1)
          /\ Again("after_class", handle_talk_jake_action(game_state, 1))
       \/ Prompt("main", game_state)

handle_newspaper_club_menu ==
    /\ AtMenu("newspaper_club")
    /\ \/ Does("friends", 0) /\ Prompt("friends", game_state)
       \/ Walk(game_state, "newspaper_club")
       \/ ShowInventory(game_state)

\* handle_talk_jake_menu: the options depend on trust and on what was said.
talk_jake_options(gs) ==
    LET told == Get(gs, "talked_to_jake_about_vision")
    IN IF gs.trust_jake < P(3) /\ ~told THEN {}
       ELSE (IF ~told THEN 1..6 ELSE {})
                \cup (IF Get(gs, "jake_owed_favor") THEN {7} ELSE {})

\* The while loop of handle_friends_submenu, with the talk menu of the friend
\* picked.  A talk menu that offers only "Go back" changes nothing.
handle_friends_submenu ==
    /\ pc = "friends"
    /\ \/ \E c \in {1, 2, 3} :
            /\ Does("alex", c)
            /\ ~Get(game_state, "talked_to_alex_about_vision")
            /\ Again("friends", handle_talk_alex_action(game_state, c))
       \/ \E c \in {1, 2} :
            /\ Does("maya", c)
            /\ ~Get(game_state, "talked_to_maya_about_vision")
            /\ Again("friends", handle_talk_maya_action(game_state, c))
       \/ \E c \in {1, 2, 3} :
            /\ Does("ben", c)
            /\ ~Get(game_state, "talked_to_ben_about_vision")
            /\ Again("friends", handle_talk_ben_action(game_state, c))
       \/ /\ game_state.trust_jake > 0 \/ Get(game_state, "jake_owed_favor")
          /\ \E c \in talk_jake_options(game_state) :
               /\ Does("jake", c)
               /\ Again("friends",
                         IF c = 7 THEN handle_jake_favor_action(game_state)
                         ELSE handle_talk_jake_action(game_state, c))
       \/ Prompt("main", game_state)

handle_general_store_menu ==
    /\ AtMenu("general_store")
    /\ \/ /\ Get(game_state, "jenkins_banned")
          /\ \E c \in 1..5 : Does("jenkins", c)
          /\ Prompt("main", set_location(game_state, "town_square"))
       \/ /\ ~Get(game_state, "jenkins_banned")
          /\ \E c \in {1, 3, 4, 5} : \E yes \in BOOLEAN, crash \in BOOLEAN :
               /\ Does("jenkins", c)
               /\ Prompt("main",
                         handle_general_store_interaction_action(
                             game_state, c, yes, crash))
       \/ /\ ~Get(game_state, "jenkins_banned")
          /\ Does("jenkins", 2)
          /\ Prompt("steal", game_state)
       \/ Walk(game_state, "general_store")
       \/ TruckTravel(game_state,
                      add_truck_travel_options(game_state, "general_store"))
       \/ ShowInventory(game_state)

\* The while loop of handle_steal_general_store_sub_menu.
handle_steal_general_store_sub_menu ==
    /\ pc = "steal"
    /\ \/ /\ Does("steal_store", 1)
          /\ \E success \in BOOLEAN :
               Again("steal",
                      handle_steal_general_store_action(game_state, 1, success))
       \/ Prompt("main", game_state)

handle_town_hall_menu ==
    /\ AtMenu("town_hall")
    /\ \/ \E c \in {1, 2, 3} :
            /\ Does("secretary", c)
            /\ Prompt("main",
                      handle_town_hall_interaction_action(game_state, c))
       \/ Walk(game_state, "town_hall")
       \/ ShowInventory(game_state)

handle_bus_stop_menu ==
    /\ AtMenu("bus_stop")
    /\ \/ Does("local_bus", 0)
            /\ Prompt("main", handle_local_bus_travel(game_state))
       \/ Does("ticket", 0)
            /\ Prompt("main", buy_out_of_state_ticket(game_state))
       \/ Walk(game_state, "bus_stop")
       \/ ShowInventory(game_state)

handle_tech_store_menu ==
    /\ AtMenu("tech_store")
    /\ \/ Does("buy_tech", 0)
            /\ Prompt("main", buy_tech_parts_action(game_state))
       \/ /\ Does("steal_tech", 0)
          /\ \E success \in BOOLEAN :
               Prompt("main",
                      handle_steal_tech_store_action(game_state, success))
       \/ Walk(game_state, "tech_store")
       \/ TruckTravel(game_state,
                      add_truck_travel_options(game_state, "tech_store"))
       \/ ShowInventory(game_state)

\* menu_handlers["military_base"]
handle_military_base_actions_internal_menu ==
    /\ AtMenu("military_base")
    /\ \E c \in 1..4 : \E laser \in {1, 2} :
         /\ Does("base", c)
         /\ Prompt("main", handle_military_base_action(game_state, c, laser))

handle_outskirts_road_menu ==
    /\ AtMenu("outskirts_road")
    /\ IF Has(game_state, "truck_keys") /\ game_state.car_gas >= 30
             /\ game_state.time_remaining > 0
       THEN Prompt("main", handle_truck_escape_ending(game_state))
       ELSE \/ Does("search_car", 0)
                 /\ Prompt("main", handle_search_for_car_action(game_state))
            \/ Walk(game_state, "outskirts_road")
            \/ TruckTravel(game_state,
                           add_truck_travel_options(game_state,
                                                    "outskirts_road"))
            \/ ShowInventory(game_state)

handle_neighbors_bunker_menu ==
    /\ AtMenu("neighbors_bunker")
    /\ IF bunker_escape_ready(game_state)
       THEN Prompt("main", bunker_escape(game_state))
       ELSE \/ \E a \in {"examine door", "knock", "enter"} :
                 /\ Does(a, 0)
                 /\ Prompt("main", handle_bunker_access_action(game_state, a))
            \/ Walk(game_state, "neighbors_bunker")
            \/ ShowInventory(game_state)

handle_burger_hut_menu ==
    /\ AtMenu("burger_hut")
    /\ \/ Does("work", 0)
            /\ Prompt("main", handle_burger_hut_work_action(game_state, "yes"))
       \/ Walk(game_state, "burger_hut")
       \/ ShowInventory(game_state)

handle_pawn_shop_menu ==
    /\ AtMenu("pawn_shop")
    /\ \/ /\ Does("sell", 0)
          /\ \E item \in {"stolen_calculator", "gas_can", "cancel"} :
               Prompt("main", handle_pawn_shop_sell_action(game_state, item))
       \/ Walk(game_state, "pawn_shop")
       \/ ShowInventory(game_state)

\* ------------------------------------------------------------ specification

\* The play styles.  The player of a run keeps to one style: the options the
\* player ever picks.  A style leaves out options, never adds one, so every run
\* of the model is a run of the game.  Options that change nothing, "Go back"
\* and the answers and random rolls inside a handler are open to every style.
Acts(kind, ns) == {kind} \X ns

Researcher ==
    [ walk |-> {"home", "town_square", "tech_store", "military_base"},
      drive |-> {},
      act |-> Acts("computer", 0..3) \cup Acts("steal_tech", {0})
                \cup Acts("base", 1..4) ]

Skeptic ==
    [ walk |-> {"home", "school_entrance", "newspaper_club", "town_square"},
      drive |-> {},
      act |-> Acts("friends", {0}) \cup Acts("alex", {1, 3})
                \cup Acts("shout", {0}) ]

Pragmatist ==
    [ walk |-> {"home", "school_entrance", "newspaper_club"},
      drive |-> {},
      act |-> Acts("friends", {0}) \cup Acts("ben", {1, 3})
                \cup Acts("maya", {1, 2}) ]

Organizer ==
    [ walk |-> {"home", "school_entrance", "newspaper_club", "town_square",
                "burger_hut", "bus_stop"},
      drive |-> {},
      act |-> Acts("friends", {0}) \cup Acts("alex", {3})
                \cup Acts("ben", {1, 3}) \cup Acts("work", {0})
                \cup Acts("ticket", {0}) ]

Citizen ==
    [ walk |-> {"home", "town_square", "town_hall"},
      drive |-> {},
      act |-> Acts("computer", {0, 2, 3}) \cup Acts("secretary", {1, 2, 3})
                \cup Acts("shout", {0}) ]

Neighbor ==
    [ walk |-> {"home", "town_square", "general_store"},
      drive |-> {},
      act |-> Acts("parents", {1, 2}) \cup Acts("jenkins", {3, 5}) ]

Shoplifter ==
    [ walk |-> {"home", "town_square", "general_store"},
      drive |-> {},
      act |-> Acts("jenkins", {2}) \cup Acts("steal_store", {1}) ]

Pupil ==
    [ walk |-> {"home", "school_entrance"},
      drive |-> {},
      act |-> Acts("class", {0})
                \cup Acts("after_class", {1}) \cup Acts("steal_school", {0})
                \cup Acts("inventory", {0}) ]

Worker ==
    [ walk |-> {"home", "town_square", "burger_hut", "tech_store",
                "military_base"},
      drive |-> {},
      act |-> Acts("work", {0}) \cup Acts("buy_tech", {0})
                \cup Acts("base", {1, 4}) ]

Shopper ==
    [ walk |-> {"home", "town_square", "burger_hut", "general_store",
                "pawn_shop"},
      drive |-> {},
      act |-> Acts("work", {0}) \cup Acts("jenkins", {1, 5})
                \cup Acts("sell", {0}) ]

Driver ==
    [ walk |-> {"home", "school_entrance", "newspaper_club", "town_square",
                "bus_stop", "outskirts_road"},
      drive |-> Locations,
      act |-> Acts("friends", {0}) \cup Acts("ben", {2})
                \cup Acts("local_bus", {0}) \cup Acts("search_car", {0}) ]

Heckler ==
    [ walk |-> {"home", "town_square", "military_base"},
      drive |-> {},
      act |-> Acts("shout", {0}) \cup Acts("base", {2, 4}) ]

Convoy ==
    [ walk |-> {"home", "school_entrance", "newspaper_club", "town_square",
                "bus_stop", "outskirts_road"},
      drive |-> {},
      act |-> Acts("friends", {0}) \cup Acts("alex", {3})
                \cup Acts("ben", {1, 2}) \cup Acts("local_bus", {0})
                \cup Acts("search_car", {0}) ]

Survivor ==
    [ walk |-> {"home", "school_entrance", "newspaper_club", "town_square",
                "general_store", "bus_stop", "outskirts_road",
                "neighbors_bunker"},
      drive |-> {},
      act |-> Acts("friends", {0})
                \cup Acts("ben", {1, 3}) \cup Acts("class", {0})
                \cup Acts("jenkins", {4})
                \cup Acts("local_bus", {0})
                \cup Acts("knock", {0}) \cup Acts("enter", {0}) ]

Hermit ==
    [ walk |-> {"home", "town_square", "bus_stop", "outskirts_road",
                "neighbors_bunker"},
      drive |-> {},
      act |-> Acts("computer", {0, 3}) \cup Acts("local_bus", {0})
                \cup Acts("examine door", {0}) \cup Acts("knock", {0})
                \cup Acts("enter", {0}) ]

\* Collects whatever is handed out: the supplies of the class and of Mr.
\* Jenkins, and Ben's gas as often as he gives it.
Packrat ==
    [ walk |-> {"home", "school_entrance", "newspaper_club", "town_square",
                "general_store"},
      drive |-> {},
      act |-> Acts("class", {0}) \cup Acts("friends", {0})
                \cup Acts("ben", {2}) \cup Acts("jenkins", {4}) ]

\* Talks to the parents and to the secretary, and at some prompt presses
\* Ctrl-C or closes the standard input.
Quitter ==
    [ walk |-> {"home", "town_square", "town_hall"},
      drive |-> {},
      act |-> Acts("parents", {1, 2}) \cup Acts("secretary", {3})
                \cup Acts("interrupt", {0}) \cup Acts("end of input", {0}) ]

\* Earns Jake's respect at the school door, challenges him, is promised a
\* favor, tells him the vision and then calls the favor in.
Crony ==
    [ walk |-> {"home", "school_entrance", "newspaper_club"},
      drive |-> {},
      act |-> Acts("friends", {0}) \cup Acts("jake", {1, 2, 3, 7}) ]

Styles ==
    {Researcher, Skeptic, Pragmatist, Organizer, Citizen, Shoplifter, Pupil,
     Neighbor, Worker, Shopper, Driver, Heckler, Convoy, Crony, Packrat,
     Survivor, Hermit}

Init ==
    /\ game_state = InitialState
    /\ pc = "main"
    /\ player \in Styles
    /\ overtime = 0
    /\ seen = {}

Next ==
    \/ ending_observed
    \/ handle_home_menu
    \/ handle_computer_use_menu
    \/ handle_town_square_menu
    \/ handle_school_entrance_menu
    \/ after_class_loop
    \/ handle_newspaper_club_menu
    \/ handle_friends_submenu
    \/ handle_general_store_menu
    \/ handle_steal_general_store_sub_menu
    \/ handle_town_hall_menu
    \/ handle_bus_stop_menu
    \/ handle_tech_store_menu
    \/ handle_military_base_actions_internal_menu
    \/ handle_outskirts_road_menu
    \/ handle_neighbors_bunker_menu
    \/ handle_burger_hut_menu
    \/ handle_pawn_shop_menu

\* The dispatch table of main_menu_loop: the handler of each location.
menu_handlers ==
    [ home |-> "handle_home_menu",
      town_square |-> "handle_town_square_menu",
      school_entrance |-> "handle_school_entrance_menu",
      newspaper_club |-> "handle_newspaper_club_menu",
      general_store |-> "handle_general_store_menu",
      town_hall |-> "handle_town_hall_menu",
      bus_stop |-> "handle_bus_stop_menu",
      tech_store |-> "handle_tech_store_menu",
      military_base |-> "handle_military_base_actions_internal_menu",
      outskirts_road |-> "handle_outskirts_road_menu",
      neighbors_bunker |-> "handle_neighbors_bunker_menu",
      burger_hut |-> "handle_burger_hut_menu",
      pawn_shop |-> "handle_pawn_shop_menu" ]

\* The menu functions that each menu function of menus.py calls.
menu_calls(f) ==
    CASE f = "handle_home_menu" ->
             {"handle_computer_use_menu", "handle_talk_parents_menu"}
      [] f = "handle_newspaper_club_menu" ->
             {"handle_friends_submenu", "handle_talk_alex_menu",
              "handle_talk_maya_menu", "handle_talk_ben_menu",
              "handle_talk_jake_menu"}
      [] f = "handle_general_store_menu" ->
             {"handle_general_store_interaction_menu"}
      [] f = "handle_general_store_interaction_menu" ->
             {"handle_steal_general_store_sub_menu"}
      [] f = "handle_town_hall_menu" -> {"handle_town_hall_interaction_menu"}
      [] f = "handle_military_base_menu" ->
             {"handle_military_base_approach_menu"}
      [] OTHER -> {}

\* The menu functions called, directly or through other menus, by those of
\* the set known.
RECURSIVE FollowCalls(_)
FollowCalls(known) ==
    LET more == known \cup UNION {menu_calls(f) : f \in known}
    IN IF more = known THEN known ELSE FollowCalls(more)

\* The menu functions main_menu_loop can get to.
dispatched == FollowCalls({menu_handlers[loc] : loc \in DOMAIN menu_handlers})

Spec == Init /\ [][Next]_vars

\* ---------------------------------------------------------------- sessions

\* The play styles a player who is after the ending takes up.
StylesFor(ending) ==
    CASE ending = "Jailed" -> {Shoplifter, Worker}
      [] ending = "Time's Up" -> {Pupil, Shopper, Hermit}
      [] ending = "Missile Destroyed" -> {Researcher}
      [] ending = "Town Evacuated" -> {Citizen}
      [] ending = "Solo Escape" -> {Driver}
      [] ending = "Allies Escape" -> {Convoy}

\* The ending a player who wants to see them all goes after next.
NextGoal(shown) ==
    IF "Jailed" \notin shown THEN "Jailed"
    ELSE IF "Time's Up" \notin shown THEN "Time's Up"
    ELSE IF "Missile Destroyed" \notin shown THEN "Missile Destroyed"
    ELSE IF "Town Evacuated" \notin shown THEN "Town Evacuated"
    ELSE IF "Solo Escape" \notin shown THEN "Solo Escape"
    ELSE "Allies Escape"

\* The play styles of a session: after the next ending, or about to quit.
SessionStyles(shown) == StylesFor(NextGoal(shown)) \cup {Quitter}

\* The template "original_state" of reset_game_state.
original_state ==
    [ current_location |-> "home",
      inventory |-> [i \in Items |-> 0],
      knowledge |-> 0,
      tech_parts |-> 0,
      mob_of_civilians |-> FALSE,
      cash |-> 0,
      authority_of_town |-> 0,
      parents_warned |-> FALSE,
      has_car_keys |-> FALSE,
      car_gas |-> 0,
      bunker_unlocked |-> FALSE,
      military_base_accessed |-> FALSE,
      trust_alex |-> P(2),
      trust_maya |-> P(4),
      trust_ben |-> P(3),
      trust_jake |-> P(1),
      has_shared_vision_with_friends |-> FALSE,
      time_remaining |-> Hr(16),
      current_day_phase |-> "morning",
      ending_achieved |-> None,
      news_warning_issued |-> FALSE,
      military_activity_noticed |-> FALSE,
      mayor_warned |-> FALSE,
      has_attended_class |-> FALSE ]

\* game_state.clear(): no key is left; a key of ExtraKeys reads as False.
clear(gs) ==
    [k \in DOMAIN gs |->
        IF k = "extra_keys" THEN {}
        ELSE IF k \in ExtraKeys THEN FALSE
        ELSE None]

\* game_state.update(other)
update(gs, other) ==
    [k \in DOMAIN gs |-> IF k \in DOMAIN other THEN other[k] ELSE gs[k]]

\* reset_game_state with the call of clear() left out.
reset_game_state_without_clear(gs) == update(gs, original_state)

\* reset_game_state()
reset_game_state(gs) == update(clear(gs), original_state)

\* The player answers "restart" to prompt_restart_or_exit: the state is
\* reset and main_menu_loop runs again.  A player who has been shown every
\* ending answers "exit".
restart ==
    /\ pc = "over"
    /\ seen # Endings
    /\ game_state' = reset_game_state(game_state)
    /\ pc' = "main"
    /\ overtime' = 0
    /\ player' \in SessionStyles(seen)
    /\ UNCHANGED seen

SessionInit ==
    /\ game_state = InitialState
    /\ pc = "main"
    /\ player \in SessionStyles({})
    /\ overtime = 0
    /\ seen = {}

\* KeyboardInterrupt leaves main_menu_loop, whose "except Exception" does not
\* catch it.  The caller of main_menu_loop decides what becomes of it: it is
\* caught there and the process exits, or nothing catches it.
leaves_main_menu_loop(gs) ==
    /\ game_state' = gs
    /\ pc' \in {"exit", "crash"}
    /\ UNCHANGED <<player, overtime, seen>>

\* Ctrl-C at the prompt of display_menu: caught there, sys.exit(0).
interrupt_display_menu ==
    /\ AtMenu("home") \/ AtMenu("town_hall")
    /\ game_state' = game_state
    /\ pc' = "exit"
    /\ UNCHANGED <<player, overtime, seen>>

\* Ctrl-C at "Press Enter to continue..." of handle_talk_parents_action:
\* nothing in the handler or in the menu catches it.
interrupt_talk_parents ==
    /\ AtMenu("home")
    /\ \E c \in {1, 2} :
         /\ Does("parents", c)
         /\ ~game_state.parents_warned \/ c = 2
         /\ leaves_main_menu_loop(
                handle_talk_parents_action_until_prompt(game_state, c))

\* Ctrl-C at "Press Enter to continue..." of
\* handle_town_hall_interaction_action: "except (EOFError,
\* KeyboardInterrupt): pass", and the handler returns as ever.
interrupt_town_hall_interaction ==
    /\ AtMenu("town_hall")
    /\ \E c \in {1, 2, 3} :
         /\ Does("secretary", c)
         /\ Prompt("main", handle_town_hall_interaction_action(game_state, c))

\* Ctrl-C at the prompt of prompt_restart_or_exit: nothing there catches it.
interrupt_restart_prompt ==
    /\ pc = "over"
    /\ leaves_main_menu_loop(game_state)

\* The player presses Ctrl-C at a blocking input.
interrupt ==
    /\ Does("interrupt", 0)
    /\ \/ interrupt_display_menu
       \/ interrupt_talk_parents
       \/ interrupt_town_hall_interaction
       \/ interrupt_restart_prompt

\* The standard input is at its end: input() in display_menu raises EOFError,
\* which display_menu does not catch; main_menu_loop catches it as an
\* Exception, sets current_location to home and goes round again, where the
\* input is still at its end.
end_of_input ==
    /\ Does("end of input", 0)
    /\ \/ AtMenu("home") \/ AtMenu("town_hall")
       \/ pc = "closed" /\ game_state.ending_achieved = None
    /\ game_state' = set_location(game_state, "home")
    /\ pc' = "closed"
    /\ UNCHANGED <<player, overtime, seen>>

SessionNext == Next \/ restart \/ interrupt \/ end_of_input

\* A session of the program: runs of the game with restarts between them.
SpecSession == SessionInit /\ [][SessionNext]_vars

\* ------------------------------------------------------------------ claims

\* The hours the code passes to advance_time, and the 16 hours of a whole run.
AdvanceHours == {0, 1, 5, Hr(1), Hr(2), Hr(3), Hr(4), Hr(16)}

TrustKeys == {"trust_alex", "trust_maya", "trust_ben", "trust_jake"}

Resources == {"knowledge", "tech_parts", "cash", "authority_of_town"}

\* What an ending is meant to freeze.
Frozen == {"current_location"} \cup Resources \cup TrustKeys

\* C1: once ending_achieved is non-null, no later player choice changes
\* current_location, knowledge, tech_parts, cash, authority_of_town or a
\* trust_* value, in the main loop and in the nested menu loops alike.
C1_EndingExclusivity ==
    [][game_state.ending_achieved # None
         => \A k \in Frozen : game_state'[k] = game_state[k]]_vars

\* C2: advance_time never replaces a recorded ending: called in a state with
\* ending_achieved non-null, it returns with the same ending, also when it
\* brings time_remaining to 0.
C2_AdvanceTimeKeepsEnding ==
    game_state.ending_achieved # None
      => \A h \in AdvanceHours : \A silent \in BOOLEAN :
            advance_time(game_state, h, silent).ending_achieved
              = game_state.ending_achieved

\* C3: time_remaining never increases from one state to the next and is never
\* negative, over every call of advance_time with hours >= 0 and so over
\* every sequence of player actions.
C3_TimeMonotone ==
    /\ [](/\ game_state.time_remaining >= 0
          /\ \A h \in AdvanceHours : \A silent \in BOOLEAN :
               LET t == advance_time(game_state, h, silent).time_remaining
               IN t >= 0 /\ t <= game_state.time_remaining)
    /\ [][game_state'.time_remaining <= game_state.time_remaining]_vars

\* A further handler call was made with the clock already at 0, and the clock
\* stayed there.
C3_Witness ==
    /\ overtime > 0
    /\ game_state.time_remaining = 0
    /\ game_state.ending_achieved = "Time's Up"
    /\ pc # "over"

\* C4: whenever advance_time leaves time_remaining at 0, ending_achieved is
\* non-null on return; advance_time(h) with h >= time_remaining from a state
\* without an ending records "Time's Up", as advance_time(16) does from the
\* start state.
C4_ZeroTimeEnds ==
    /\ game_state.time_remaining = 0 => game_state.ending_achieved # None
    /\ \A h \in AdvanceHours : \A silent \in BOOLEAN :
         LET after == advance_time(game_state, h, silent)
         IN /\ after.time_remaining = 0 => after.ending_achieved # None
            /\ (game_state.ending_achieved = None
                  /\ h >= game_state.time_remaining)
                 => after.ending_achieved = "Time's Up"
    /\ advance_time(InitialState, Hr(16), FALSE).ending_achieved = "Time's Up"

\* The clock ran out during play and the main loop showed the ending.
C4_Witness ==
    /\ game_state.time_remaining = 0
    /\ game_state.ending_achieved = "Time's Up"
    /\ pc = "over"

PhaseRank(phase) ==
    CASE phase = "morning" -> 0
      [] phase = "afternoon" -> 1
      [] phase = "evening" -> 2
      [] phase = "night" -> 3

\* C5: current_day_phase never regresses: under morning < afternoon < evening
\* < night every transition keeps the phase or moves it to a later one.
C5_PhaseNeverRegresses ==
    [][PhaseRank(game_state'.current_day_phase)
         >= PhaseRank(game_state.current_day_phase)]_vars

\* A run that went through every phase up to the night.
C5_Witness ==
    /\ game_state.current_day_phase = "night"
    /\ game_state.time_remaining > 0

\* C6: in every reachable state knowledge, tech_parts, cash and
\* authority_of_town are each >= 0.
C6_ResourcesNonNegative ==
    \A k \in Resources : game_state[k] >= 0

\* C7: in every reachable state trust_alex, trust_maya, trust_ben and
\* trust_jake are each >= 0.
C7_TrustNonNegative ==
    \A k \in TrustKeys : game_state[k] >= 0

\* C8: in every reachable state each trust_* value is at most 10, the upper
\* bound validate_game_state accepts.
C8_TrustAtMostTen ==
    \A k \in TrustKeys : game_state[k] <= P(10)

\* C9: "Missile Destroyed" is recorded only at the military base with
\* knowledge >= 7 and tech_parts >= 2.
C9_MissileDestroyedGuard ==
    game_state.ending_achieved = "Missile Destroyed"
      => /\ game_state.current_location = "military_base"
         /\ game_state.knowledge >= 7
         /\ game_state.tech_parts >= 2

\* C10: "Allies Escape" is recorded, by truck, bus ticket or bunker, only
\* with the vision shared with the friends and trust_alex >= 4,
\* trust_maya >= 5 and trust_ben >= 4.
C10_AlliesEscapeGuard ==
    game_state.ending_achieved = "Allies Escape"
      => /\ game_state.has_shared_vision_with_friends
         /\ game_state.trust_alex >= P(4)
         /\ game_state.trust_maya >= P(5)
         /\ game_state.trust_ben >= P(4)

\* C11: dispatched with mayor_warned and mob_of_civilians both true and
\* time_remaining > 0, the Town Square handler records "Town Evacuated" and
\* changes no other field (no menu is offered); "Town Evacuated" is recorded
\* in no other way.
C11_TownEvacuated ==
    [][LET ready == /\ AtMenu("town_square")
                    /\ game_state.mayor_warned
                    /\ game_state.mob_of_civilians
                    /\ game_state.time_remaining > 0
       IN /\ ready => game_state' = [game_state EXCEPT
                                       !.ending_achieved = "Town Evacuated"]
          /\ (/\ game_state'.ending_achieved = "Town Evacuated"
              /\ game_state.ending_achieved # "Town Evacuated") => ready]_vars

\* The town square recorded the evacuation.
C11_Witness ==
    /\ game_state.ending_achieved = "Town Evacuated"
    /\ game_state.current_location = "town_square"
    /\ game_state.mayor_warned
    /\ game_state.mob_of_civilians
    /\ game_state.time_remaining > 0

\* C12: for each theft handler (general store, school, tech store), a failed
\* roll in a state with no ending recorded and time_remaining > 0 leaves
\* ending_achieved = "Jailed" when the handler returns.
C12_FailedTheftJailed ==
    (game_state.ending_achieved = None /\ game_state.time_remaining > 0)
      => /\ pc = "steal"
              => handle_steal_general_store_action(game_state, 1, FALSE)
                   .ending_achieved = "Jailed"
         /\ AtMenu("school_entrance")
              => \A yes \in BOOLEAN :
                    handle_steal_school_action(game_state, FALSE, yes)
                      .ending_achieved = "Jailed"
         /\ AtMenu("tech_store")
              => handle_steal_tech_store_action(game_state, FALSE)
                   .ending_achieved = "Jailed"

\* C13 as stated: "Time's Up" is recorded only in states where
\* time_remaining is 0.
C13_TimesUpOnlyAtZero ==
    game_state.ending_achieved = "Time's Up" => game_state.time_remaining = 0

\* C13 as amended: "Time's Up" is recorded only in states where
\* time_remaining is 0 or, by the laser sequence, at the military base.
C13_TimesUpAtZeroOrLaser ==
    game_state.ending_achieved = "Time's Up"
      => \/ game_state.time_remaining = 0
         \/ game_state.current_location = "military_base"

\* The laser sequence recorded "Time's Up" with the clock still running.
C13_Witness ==
    /\ game_state.ending_achieved = "Time's Up"
    /\ game_state.time_remaining > 0
    /\ game_state.current_location = "military_base"
    /\ pc = "over"

\* C14: dispatched with "truck_keys" in the inventory, car_gas >= 30 and
\* time_remaining > 0, the Outskirts Road handler records an escape ending
\* before any menu is offered, "Allies Escape" when the ally conjunction
\* (vision shared, trust_alex >= 4, trust_maya >= 5, trust_ben >= 4) holds
\* and "Solo Escape" otherwise, and changes no other field.
C14_TruckEscape ==
    [][(/\ AtMenu("outskirts_road")
        /\ Has(game_state, "truck_keys")
        /\ game_state.car_gas >= 30
        /\ game_state.time_remaining > 0)
         => game_state' =
              [game_state EXCEPT !.ending_achieved =
                  IF status_allies_ready(game_state)
                  THEN "Allies Escape" ELSE "Solo Escape"]]_vars

\* C16: in the static location graph (the exits maps of locations) every
\* location is reachable from home by following exits.
C16_ExitsReachAll ==
    game_state.current_location = "home"
      => FollowExits({game_state.current_location}) = Locations

\* C17: once a failed open warning has set failed_public_warning, every later
\* attempt to enter the military base ends in "Jailed" and the player never
\* gets inside the base: with the flag set, the player is at the military
\* base only with the ending "Jailed" recorded.
C17_FailedWarningBarsBase ==
    (/\ Get(game_state, "failed_public_warning")
     /\ game_state.current_location = "military_base")
      => game_state.ending_achieved = "Jailed"

\* C18: whenever the loop dispatches the handler of military_base, which
\* offers the in-base actions, military_base_accessed is true.
C18_BaseMenuNeedsAccess ==
    AtMenu("military_base") => game_state.military_base_accessed

\* The friends the vision can be told to, and the flag of each.
Friends == {"alex", "maya", "ben", "jake"}

talked_to_about_vision(gs, who) ==
    CASE who = "alex" -> Get(gs, "talked_to_alex_about_vision")
      [] who = "maya" -> Get(gs, "talked_to_maya_about_vision")
      [] who = "ben" -> Get(gs, "talked_to_ben_about_vision")
      [] who = "jake" -> Get(gs, "talked_to_jake_about_vision")

\* What handle_talk_<who>_action leaves behind, for each choice number.
talk_actions(gs, who) ==
    CASE who = "alex" -> {handle_talk_alex_action(gs, c) : c \in 1..3}
      [] who = "maya" -> {handle_talk_maya_action(gs, c) : c \in 1..2}
      [] who = "ben" -> {handle_talk_ben_action(gs, c) : c \in 1..3}
      [] who = "jake" -> {handle_talk_jake_action(gs, c) : c \in 1..6}

\* The same with the favor that Jake's talk menu offers while he owes one.
talk_menu_actions(gs, who) ==
    talk_actions(gs, who)
        \cup (IF who = "jake" /\ Get(gs, "jake_owed_favor")
              THEN {handle_jake_favor_action(gs)}
              ELSE {})

\* C19 (as stated): once talked_to_<name>_about_vision is true it stays true,
\* and every later talk action with that character, the options of the talk
\* menu included, leaves the state that advance_time(0.5) alone leaves.
C19_LaterTalksOnlyCostTime ==
    [][\A who \in Friends :
          talked_to_about_vision(game_state, who) =>
             /\ talked_to_about_vision(game_state', who)
             /\ (/\ pc \in {"friends", "after_class"}
                 /\ game_state' \in talk_menu_actions(game_state, who))
                  => game_state' = advance_time(game_state, 5, TRUE)]_vars

\* C19 (amended): once talked_to_<name>_about_vision is true it stays true,
\* and every later call of handle_talk_<name>_action leaves the state that
\* advance_time(0.5) alone leaves; the favor Jake owes is the exception.
C19_LaterTalkActionsOnlyCostTime ==
    [][\A who \in Friends :
          talked_to_about_vision(game_state, who) =>
             /\ talked_to_about_vision(game_state', who)
             /\ (/\ pc \in {"friends", "after_class"}
                 /\ game_state' \in talk_actions(game_state, who))
                  => game_state' = advance_time(game_state, 5, TRUE)]_vars

\* Jake has been told, and was talked to again after class once the run had
\* already ended.
C19_Witness ==
    /\ Get(game_state, "talked_to_jake_about_vision")
    /\ pc = "after_class"
    /\ overtime >= 1

\* C20: news_warning_issued and military_activity_noticed never go back to
\* false, the radio warning is granted with the first of them and at most
\* once, and after every step that leaves 0 < time_remaining <= 10h
\* (respectively <= 5h) the flag of that threshold is true.
C20_ClockEventsOnce ==
    [][/\ game_state.news_warning_issued => game_state'.news_warning_issued
       /\ game_state.military_activity_noticed
             => game_state'.military_activity_noticed
       /\ Count(game_state', "radio_warning") <= 1
       /\ Count(game_state', "radio_warning") > Count(game_state, "radio_warning")
             => ~game_state.news_warning_issued
                  /\ game_state'.news_warning_issued
       /\ (game_state'.time_remaining > 0
             /\ game_state'.time_remaining <= Hr(10))
             => game_state'.news_warning_issued
       /\ (game_state'.time_remaining > 0
             /\ game_state'.time_remaining <= Hr(5))
             => game_state'.military_activity_noticed]_vars

\* The clock stands at exactly 10h, or at exactly 5h, with the event of that
\* threshold fired and the run still open.
C20_Witness ==
    /\ game_state.ending_achieved = None
    /\ \/ /\ game_state.time_remaining = Hr(10)
          /\ game_state.news_warning_issued
          /\ ~game_state.military_activity_noticed
          /\ Count(game_state, "radio_warning") = 1
       \/ /\ game_state.time_remaining = Hr(5)
          /\ game_state.military_activity_noticed

\* C15: each of the six endings is reachable and observed by the game loop.
\* Whatever ending a run records is one of the six and the loop that returns
\* has shown it; the witness is a session that has been shown all six.
C15_EndingsObserved ==
    /\ seen \subseteq Endings
    /\ pc = "over" => game_state.ending_achieved \in seen

\* main_menu_loop has shown every one of the six endings, the last of them
\* just now.
C15_Witness ==
    /\ seen = Endings
    /\ pc = "over"
    /\ game_state.ending_achieved = "Allies Escape"

\* C21: for every reachable state and every hours value the code passes,
\* advance_time(hours, silent=True) and advance_time(hours, silent=False)
\* leave the same game state.
C21_SilentChangesNoState ==
    \A hours \in AdvanceHours :
        advance_time(game_state, hours, TRUE)
            = advance_time(game_state, hours, FALSE)

\* A state from which a silent half hour fires the radio warning or the
\* military traffic.
C21_Witness ==
    /\ game_state.ending_achieved = None
    /\ \/ /\ ~game_state.news_warning_issued
          /\ advance_time(game_state, 5, TRUE).news_warning_issued
          /\ Has(advance_time(game_state, 5, TRUE), "radio_warning")
       \/ /\ ~game_state.military_activity_noticed
          /\ advance_time(game_state, 5, TRUE).military_activity_noticed

\* The phase the fixed breakpoints give for t > 0.
phase_bucket(t) ==
    IF t > Hr(12) THEN "morning"
    ELSE IF t > Hr(6) THEN "afternoon"
    ELSE IF t > Hr(1) THEN "evening"
    ELSE "night"

\* C22: in every reachable state with time_remaining > 0, current_day_phase
\* is the bucket of time_remaining: morning above 12h, afternoon in (6, 12],
\* evening in (1, 6], night at 1h and below.
C22_PhaseIsBucket ==
    game_state.time_remaining > 0
        => game_state.current_day_phase
               = phase_bucket(game_state.time_remaining)

\* The clock stands on a breakpoint in an open run: exactly 12h in the
\* afternoon, exactly 6h in the evening, or exactly 1h at night.
C22_Witness ==
    /\ game_state.ending_achieved = None
    /\ \/ /\ game_state.time_remaining = Hr(12)
          /\ game_state.current_day_phase = "afternoon"
       \/ /\ game_state.time_remaining = Hr(6)
          /\ game_state.current_day_phase = "evening"
       \/ /\ game_state.time_remaining = Hr(1)
          /\ game_state.current_day_phase = "night"

\* C23: in every reachable state current_location is a key of locations and
\* a key of menu_handlers, so main_menu_loop always finds a handler.
C23_LocationHasHandler ==
    /\ game_state.current_location \in Locations
    /\ game_state.current_location \in DOMAIN menu_handlers

\* The player has driven the truck an odd number of times and stands where
\* the last drive, or a walk after it, has taken them.
C23_Witness ==
    /\ Has(game_state, "truck_keys")
    /\ game_state.car_gas % 10 = 5
    /\ game_state.current_location \in {"military_base", "general_store"}

\* The items the code grants under a test that they are not held yet.
UniqueItems == {"backpack", "truck_keys", "bunker_rumor", "gas_can"}

\* C24: the inventory never holds more than one backpack, truck_keys,
\* bunker_rumor or gas_can, however often the granting actions are repeated,
\* and a step that grants supplies raises their count by exactly 1.
C24_UniqueItemsStayUnique ==
    [][/\ \A item \in UniqueItems : Count(game_state', item) <= 1
       /\ Count(game_state', "supplies") > Count(game_state, "supplies")
             => Count(game_state', "supplies")
                    = Count(game_state, "supplies") + 1]_vars

\* The gas can was granted once though gas was handed over twice, the rumor
\* is held once, and supplies were granted twice.
C24_Witness ==
    /\ Count(game_state, "gas_can") = 1
    /\ game_state.car_gas >= 60
    /\ Count(game_state, "bunker_rumor") = 1
    /\ Count(game_state, "supplies") = 2

\* C25 (as stated): an interrupt at a blocking input always ends in a clean
\* exit of the process: every step that Ctrl-C can take ends with sys.exit(0).
C25_InterruptExitsCleanly ==
    [][interrupt => pc' = "exit"]_vars

\* C26 (as stated): after a handler raised an exception the loop has not
\* ended, the player is at home, and the loop makes progress: some step that
\* changes the state is possible.
C26_HandlerExceptionRecovers ==
    pc = "closed"
        => /\ game_state.current_location = "home"
           /\ game_state.ending_achieved = None
           /\ ENABLED <<SessionNext>>_vars

\* C27: reset_game_state, called in any reachable state, yields exactly the
\* initial state, with every key added during play gone, and calling it
\* twice equals calling it once.
C27_ResetYieldsInitialState ==
    LET fresh == reset_game_state(game_state)
    IN /\ fresh = InitialState
       /\ fresh.extra_keys = {}
       /\ reset_game_state(fresh) = fresh

\* A run that followed a restart has ended with keys added during play, with
\* items in the inventory and with the clock run down: the state the next
\* restart resets.
C27_Witness ==
    /\ pc = "over"
    /\ Cardinality(seen) >= 2
    /\ game_state.extra_keys # {}
    /\ \E i \in Items : Has(game_state, i)
    /\ game_state.time_remaining < Hr(16)

\* The menu functions named in test_menu_functions.
menu_functions ==
    {"handle_home_menu", "handle_town_square_menu",
     "handle_school_entrance_menu", "handle_general_store_menu",
     "handle_tech_store_menu", "handle_military_base_menu",
     "handle_military_base_approach_menu", "handle_outskirts_road_menu",
     "handle_neighbors_bunker_menu", "handle_bus_stop_menu",
     "handle_town_hall_menu", "handle_burger_hut_menu",
     "handle_pawn_shop_menu"}

\* C28 (as stated): each of the 13 menu functions named in
\* test_menu_functions can be invoked by play from the initial state: it is
\* the handler of a location or is called from a menu that can be invoked.
C28_MenuFunctionsAccessible ==
    game_state.current_location \in DOMAIN menu_handlers
        => menu_functions \subseteq dispatched

\* C29: in every reachable state, current_location = neighbors_bunker
\* implies that "bunker_rumor" is in the inventory.
C29_BunkerNeedsRumor ==
    game_state.current_location = "neighbors_bunker"
        => Has(game_state, "bunker_rumor")

\* The player stands at the bunker with the rumor in the inventory, in an
\* open run.
C29_Witness ==
    /\ game_state.current_location = "neighbors_bunker"
    /\ Has(game_state, "bunker_rumor")
    /\ game_state.ending_achieved = None
    /\ pc = "main"

\* What Jake's trust can stand at, in half points, from well below the glare
\* threshold to well above the trust that wins him over.
JakeTrusts == (0 - P(5))..P(20)

\* The states in which the player speaks to Jake: the current state with
\* Jake's trust and the vision flag set to whatever play may have made them,
\* and no ending recorded yet.
jake_encounters(gs) ==
    { [SetKey(gs, "talked_to_jake_about_vision", told)
          EXCEPT !.trust_jake = t, !.ending_achieved = None] :
        t \in JakeTrusts, told \in BOOLEAN }

\* C30: the Jailed outcome of the escalation with Jake is reachable: there is
\* an encounter with Jake in which challenging his authority
\* (handle_talk_jake_action with choice 3) sets ending_achieved to "Jailed".
C30_ChallengeCanJail ==
    \E gs \in jake_encounters(game_state) :
        handle_talk_jake_action(gs, 3).ending_achieved = "Jailed"

\* C31: buying the out-of-state bus ticket at the bus stop: if cash >= 1 and
\* time_remaining > 0, cash decreases by exactly 1 and an escape ending is
\* recorded, Allies Escape when the ally conjunction (vision shared,
\* trust_alex >= 4, trust_maya >= 5, trust_ben >= 4) holds and Solo Escape
\* otherwise; otherwise no field of the game state changes, time_remaining
\* included.
C31_TicketEffect ==
    AtMenu("bus_stop") =>
        LET bought == buy_out_of_state_ticket(game_state)
        IN IF game_state.cash >= 1 /\ game_state.time_remaining > 0
           THEN /\ bought.cash = game_state.cash - 1
                /\ bought.ending_achieved =
                       IF status_allies_ready(game_state)
                       THEN "Allies Escape" ELSE "Solo Escape"
           ELSE bought = game_state

\* The items handle_town_hall_interaction_action accepts as proof.
EvidenceItems == {"survival_notes_alex", "radio_warning", "bunker_rumor"}

\* C32: in every reachable state, mayor_warned implies knowledge >= 5 and at
\* least one evidence item in the inventory; a town-hall demand made without
\* that conjunction never sets mayor_warned and sends the player back to
\* town_square.
C32_MayorNeedsProof ==
    LET proof == /\ game_state.knowledge >= 5
                 /\ \E item \in EvidenceItems : Has(game_state, item)
    IN /\ game_state.mayor_warned => proof
       /\ (AtMenu("town_hall") /\ ~proof) =>
            LET demanded == handle_town_hall_interaction_action(game_state, 1)
            IN /\ ~demanded.mayor_warned
               /\ demanded.current_location = "town_square"

\* The mayor has been warned by a player who went on to the town square.
C32_Witness ==
    /\ game_state.mayor_warned
    /\ game_state.knowledge >= 5
    /\ game_state.current_location = "town_square"
    /\ game_state.authority_of_town < P(5)

\* The game time a handler has spent that took the state from gs to after.
time_spent(gs, after) == gs.time_remaining - after.time_remaining

\* C33: travelling to a location by truck costs less game time than walking
\* to the same location: at every menu that offers the truck, for every
\* destination the menu offers both ways, handle_truck_travel_action spends
\* less time_remaining than the walking option.
C33_TruckFasterThanWalking ==
    \A loc \in Locations :
        (/\ AtMenu(loc)
         /\ Has(game_state, "truck_keys")
         /\ game_state.car_gas >= 10) =>
            \A d \in walk_options(game_state, loc)
                      \cap add_truck_travel_options(game_state, loc) :
                time_spent(game_state,
                           handle_truck_travel_action(game_state, d))
                    < time_spent(game_state, set_location(game_state, d))

\* C34: whenever the game loop starts an iteration with time_remaining = 0,
\* ending_achieved is exactly "Time's Up", whatever was chosen before,
\* further choices inside a nested submenu after the clock reached 0
\* included.
C34_ZeroTimeIsTimesUp ==
    (pc = "main" /\ game_state.time_remaining = 0)
        => game_state.ending_achieved = "Time's Up"

\* The clock ran out inside a nested submenu, the player went on choosing
\* there, and the game loop now starts its iteration at time 0.
C34_Witness ==
    /\ pc = "main"
    /\ game_state.time_remaining = 0
    /\ overtime >= 2
    /\ game_state.ending_achieved = "Time's Up"

\* The endings in which the player gets away or the town is saved.
SuccessfulEndings ==
    {"Allies Escape", "Solo Escape", "Town Evacuated", "Missile Destroyed"}

\* C35: whenever the game loop observes one of the successful endings
\* (Allies Escape, Solo Escape, Town Evacuated, Missile Destroyed),
\* time_remaining is strictly greater than 0.
C35_SuccessHasTimeLeft ==
    (pc = "main" /\ game_state.ending_achieved \in SuccessfulEndings)
        => game_state.time_remaining > 0

\* The loop is about to show the destroyed missile, with less than two hours
\* left on the clock.
C35_Witness ==
    /\ pc = "main"
    /\ game_state.ending_achieved = "Missile Destroyed"
    /\ game_state.time_remaining < Hr(2)
    /\ game_state.time_remaining > 0

C37_BaseHoldsThePlayer ==
    [][ game_state.current_location = "military_base" =>
          /\ \/ game_state'.current_location = "military_base"
             \/ /\ game_state'.current_location = "outskirts_road"
                /\ game_state.knowledge >= 4
                /\ Has(game_state, "backpack")
          /\ (/\ game_state'.current_location = "military_base"
              /\ game_state'.knowledge < 4
              /\ game_state'.ending_achieved # None)
                => game_state'.ending_achieved \in {"Jailed", "Time's Up"}
      ]_vars

\* The player is out of the base through the hidden exit: on the outskirts
\* road, which this player reaches neither on foot nor by truck nor by bus.
C37_Witness ==
    /\ game_state.current_location = "outskirts_road"
    /\ "outskirts_road" \notin player.walk \cup player.drive
    /\ ~Does("local_bus", 0)
    /\ game_state.knowledge >= 4
    /\ Has(game_state, "backpack")
    /\ game_state.ending_achieved = None

\* C38: the status screen's "Ready for Allies Escape" indicator agrees with
\* the ending logic: in every state of an open run it is shown as ready
\* exactly when a successful escape (truck, bus ticket or bunker) taken in
\* that state would record Allies Escape rather than Solo Escape.
C38_StatusAgreesWithEndings ==
    (pc = "main" /\ game_state.ending_achieved = None) =>
        /\ truck_escape_starts(game_state) =>
              (status_allies_ready(game_state)
                 <=> handle_truck_escape_ending(game_state).ending_achieved
                        = "Allies Escape")
        /\ (game_state.cash >= 1 /\ game_state.time_remaining > 0) =>
              (status_allies_ready(game_state)
                 <=> buy_out_of_state_ticket(game_state).ending_achieved
                        = "Allies Escape")
        /\ bunker_escape_ready(game_state) =>
              (status_allies_ready(game_state)
                 <=> bunker_escape(game_state).ending_achieved
                        = "Allies Escape")

\* The values of the INVENTORY_ITEMS table.
INVENTORY_ITEMS ==
    { "backpack", "car_keys", "tech_parts", "supplies", "emergency_kit",
      "notebook", "circuit_board", "stolen_calculator", "stolen_tech_part",
      "gas_can" }

\* item.startswith("stolen_"), over the items the handlers hand out.
starts_with_stolen(item) == item \in {"stolen_calculator", "stolen_tech_part"}

\* The inventory items for which validate_game_state appends
\* "Unknown inventory item".
unknown_inventory_items(gs) ==
    { item \in Items :
        /\ Has(gs, item)
        /\ item \notin INVENTORY_ITEMS
        /\ ~starts_with_stolen(item)
        /\ item \notin { "bunker_rumor", "bunker_supplies_taken",
                          "survival_notes_alex", "survival_checklist",
                          "tip_henderson_truck", "burger_hut_paycheck",
                          "radio_warning", "kitchen_supplies_taken",
                          "school_supplies_taken", "truck_keys" } }

\* C39: every item that a handler can place in the inventory is accepted by
\* validate_game_state: in no reachable state does the validator report
\* "Unknown inventory item".
C39_InventoryIsValid ==
    unknown_inventory_items(game_state) = {}

\* C40: in every reachable state cash >= 0 and car_gas >= 0, and knowledge
\* and tech_parts never decrease from one state to the next: every spending
\* action (bus ticket, store purchase, tech parts purchase, truck trip) is
\* taken only when the balance covers its cost.
C40_BalancesCoverCosts ==
    [][ /\ game_state.cash >= 0
        /\ game_state.car_gas >= 0
        /\ game_state'.cash >= 0
        /\ game_state'.car_gas >= 0
        /\ game_state'.knowledge >= game_state.knowledge
        /\ game_state'.tech_parts >= game_state.tech_parts ]_vars

\* Two shifts' pay has gone over the counter of the tech store, down to the
\* last cash unit.
C40_Witness ==
    /\ game_state.cash = 0
    /\ Count(game_state, "circuit board") = 2
    /\ game_state.tech_parts = 2
    /\ game_state.ending_achieved = None

====
